---- MODULE Spec2Model ----
(***************************************************************************)
(* Client of the multiplayer world viewer (src/main.js): the message       *)
(* channel, the protocol handlers, the world state store, the camera and   *)
(* the throttled input loop, as one event-driven state machine.  Every     *)
(* action is one event-loop task: an event handler, a timer callback or    *)
(* the resumption of a suspended async handler.                            *)
(*                                                                         *)
(* Numbers of a server payload are carried in tenths of a pixel so that    *)
(* `v | 0` (ToInt32) is a real truncation; every other quantity is in      *)
(* pixels or milliseconds.  Payload numbers stay inside the int32 range.   *)
(***************************************************************************)
EXTENDS Integers, Sequences, FiniteSets, TLC

VARIABLES
  world,                \* state.world: [width, height, ready]
  me,                   \* state.me
  otherPlayers,         \* state.otherPlayers.byId: id -> remote player record
  viewport,             \* state.viewport: [width, height, cameraX, cameraY]
  readyState,           \* ws: "NONE" (ws undefined), "CONNECTING", "OPEN", "CLOSED"
  keysPressed,          \* keysPressed: direction -> BOOLEAN
  movementLoopId,       \* timer handle of the input loop, 0 = null
  timers,               \* pending setTimeout callbacks of movementLoop: [id, due]
  lastMoveTime,         \* Date.now() of the last emitting tick, 0 initially
  canSendMoveCommands,  \* the move gate
  joinHandlers,         \* number of join_game handlers suspended in their await of avatar caching
  now,                  \* Date.now()
  \* history variables (observations, never read by the program)
  sent,                 \* ws.send calls of the last task, each with the channel/gate state at the call
  prevBurstAt,          \* the instant of the emitting run before that one, -1 if none
  lastBurstAt,          \* the instant of the last run of the loop that sent direction moves, -1 if none
  lastMoveAt,           \* the last instant at which a move of either shape was sent, -1 if none
  closeHandled,         \* a close or error event has been handled
  positionSupplied,     \* a server message has supplied a position of the local player
  cameraCalled,         \* updateCamera was invoked by the last task
  beforeRender,         \* the remote map before the last task if that was a presentation tick, else empty
  motionFrames,         \* number of presentation ticks that moved a remote player
  lastQuiet             \* what the last task did if it was a rejected join or a player_left, else ""

vars == <<world, me, otherPlayers, viewport, readyState, keysPressed,
          movementLoopId, timers, lastMoveTime, canSendMoveCommands,
          joinHandlers, now, sent, prevBurstAt, lastBurstAt, lastMoveAt,
          closeHandled, positionSupplied, cameraCalled, beforeRender,
          motionFrames, lastQuiet>>

progVars == <<world, me, otherPlayers, viewport, readyState, keysPressed,
              movementLoopId, timers, lastMoveTime, canSendMoveCommands,
              joinHandlers, now>>

----------------------------------------------------------------------------
(* Bounds of the model *)

StartTime == 1000       \* Date.now() when the page loads
MaxAdvances == 8        \* number of clock advances explored
MaxSuspended == 2       \* join_game handlers suspended at the same time

TimeStep == 25          \* ms by which the clock advances between two tasks

Unit == 1000            \* a remote player's coordinates are numbers of 1/Unit pixel
AllAdvances == 4        \* clock advances explored with every task enabled
SettleFrames == 24      \* presentation ticks that move a remote player, from one target to the next
MaxMotionFrames == 4    \* presentation ticks that move a remote player

----------------------------------------------------------------------------
(* Program constants *)

MOVE_THROTTLE_MS == 100
RetryDelay == 100
TickDelay == 50

Null == "<null>"        \* null: state.me.id and state.me.avatarName before a join

Directions == <<"up", "down", "left", "right">>   \* key order of keysPressed

keyMap ==
  [k \in {"ArrowUp", "ArrowDown", "ArrowLeft", "ArrowRight",
          "KeyW", "KeyS", "KeyA", "KeyD"} |->
     CASE k \in {"ArrowUp", "KeyW"} -> "up"
       [] k \in {"ArrowDown", "KeyS"} -> "down"
       [] k \in {"ArrowLeft", "KeyA"} -> "left"
       [] OTHER -> "right"]

----------------------------------------------------------------------------
(* Utilities *)

Max(a, b) == IF a >= b THEN a ELSE b
Min(a, b) == IF a <= b THEN a ELSE b

\* clamp without its lower bound
clampUpperOnly(value, min, max) == Min(max, value)

clamp(value, min, max) == Max(min, Min(max, value))

\* Math.floor(v / 2)
FloorHalf(v) == v \div 2

\* v | 0 for a payload number v given in tenths: truncation toward zero
ToInt32(v) == IF v >= 0 THEN v \div 10 ELSE -((-v) \div 10)

\* facing || fallback ("" stands for an absent or empty field)
OrElse(v, fallback) == IF v = "" THEN fallback ELSE v

\* a whole number of pixels as a remote player's coordinate
Px(v) == v * Unit

Abs(v) == IF v >= 0 THEN v ELSE -v

\* an empty state.otherPlayers.byId
NoPlayers == [i \in {} |-> 0]

\* the property key a value is coerced to in players[state.me.id]
KeyOf(id) == IF id = Null THEN "null" ELSE id

----------------------------------------------------------------------------
(* Camera *)

\* the early return without the test of hasServerPosition
CameraGuardNoPosition(w, m) ==
  /\ w.ready
  /\ w.width # 0
  /\ w.height # 0

\* the early return of updateCamera, negated
CameraGuard(w, m) ==
  /\ w.ready
  /\ w.width # 0
  /\ w.height # 0
  /\ m.hasServerPosition

\* the top-left offset by the whole viewport dimension
DesiredCameraNoHalf(pos, vdim) == pos - vdim

\* desiredX / desiredY: the top-left that centers the local player
DesiredCamera(pos, vdim) == pos - FloorHalf(vdim)

\* maxX / maxY
MaxCamera(wdim, vdim) == Max(0, wdim - vdim)

\* updateCamera(): the viewport after the call, for world w and local player m
updateCamera(w, m, v) ==
  IF ~CameraGuard(w, m) THEN v
  ELSE [v EXCEPT
          !.cameraX = clamp(DesiredCamera(m.x, v.width), 0, MaxCamera(w.width, v.width)),
          !.cameraY = clamp(DesiredCamera(m.y, v.height), 0, MaxCamera(w.height, v.height))]

----------------------------------------------------------------------------
(* Channel and outbound messages *)

\* ws && ws.readyState === WebSocket.OPEN
ChannelOpen == readyState = "OPEN"

\* one ws.send call, observed with the channel state and the gate at the call
Out(m, gate) == [msg |-> m, open |-> ChannelOpen, gate |-> gate]

IsMove(o) == o.msg.action = "move"

HasMove(msgs) == \E i \in 1..Len(msgs) : IsMove(msgs[i])

\* history of the sends of one task
NoteSent(msgs) ==
  /\ sent' = msgs
  /\ lastMoveAt' = IF HasMove(msgs) THEN now ELSE lastMoveAt

----------------------------------------------------------------------------
(* Input loop *)

\* setTimeout: a handle that no pending timer has
NextTimerId(pending) ==
  CHOOSE i \in 1..(Cardinality(pending) + 1) :
    \A t \in pending : t.id # i

\* activeDirections, in the key order of keysPressed
ActiveDirections == SelectSeq(Directions, LAMBDA d : keysPressed[d])

\* the throttle test without the threshold
ThrottleOff(t) == t - lastMoveTime >= 0

\* now - lastMoveTime >= MOVE_THROTTLE_MS
ThrottleElapsed(t) == t - lastMoveTime >= MOVE_THROTTLE_MS

\* the condition of the move branch of movementLoop
MayEmitMoves(active, gate) ==
  /\ active # <<>>
  /\ gate
  /\ ThrottleElapsed(now)

\* the stop branch held back by the throttle of the move branch
MayEmitStopThrottled(active, gate) ==
  /\ active = <<>>
  /\ gate
  /\ ThrottleElapsed(now)

\* the condition of the stop branch of movementLoop
MayEmitStop(active, gate) ==
  /\ active = <<>>
  /\ gate

\* the move commands of one emission: one per active direction
MoveBurst(active, gate) ==
  [i \in 1..Len(active) |-> Out([action |-> "move", direction |-> active[i]], gate)]

\* movementLoop(): one run of the loop body, with `pending` the timers
\* still pending when it starts and `gate` the current canSendMoveCommands
movementLoop(gate, pending) ==
  LET active == ActiveDirections
      id == NextTimerId(pending)
  IN IF ~ChannelOpen
       THEN /\ timers' = pending \cup {[id |-> id, due |-> now + RetryDelay]}
            /\ movementLoopId' = id
            /\ NoteSent(<<>>)
            /\ UNCHANGED <<lastMoveTime, lastBurstAt, prevBurstAt>>
       ELSE /\ timers' = pending \cup {[id |-> id, due |-> now + TickDelay]}
            /\ movementLoopId' = id
            /\ IF MayEmitMoves(active, gate)
                 THEN /\ NoteSent(MoveBurst(active, gate))
                      /\ lastMoveTime' = now
                      /\ lastBurstAt' = now
                      /\ prevBurstAt' = lastBurstAt
                 ELSE IF MayEmitStop(active, gate)
                 THEN /\ NoteSent(<<Out([action |-> "stop"], gate)>>)
                      /\ UNCHANGED <<lastMoveTime, lastBurstAt, prevBurstAt>>
                 ELSE /\ NoteSent(<<>>)
                      /\ UNCHANGED <<lastMoveTime, lastBurstAt, prevBurstAt>>

\* startMovementLoop()
startMovementLoop(gate) ==
  IF movementLoopId # 0
    THEN /\ NoteSent(<<>>)
         /\ UNCHANGED <<timers, movementLoopId, lastMoveTime, lastBurstAt,
                        prevBurstAt>>
    ELSE movementLoop(gate, timers)

\* stopMovementLoop(): the pending timers after the call
stopMovementLoop ==
  IF movementLoopId # 0
    THEN /\ timers' = {t \in timers : t.id # movementLoopId}
         /\ movementLoopId' = 0
    ELSE UNCHANGED <<timers, movementLoopId>>

----------------------------------------------------------------------------
(* Initial state: the script has run, the world image has not loaded *)

Init ==
  /\ world = [width |-> 0, height |-> 0, ready |-> FALSE]
  /\ me = [id |-> Null, username |-> "Tim", x |-> 1024, y |-> 1024,
           facing |-> "south", animationFrame |-> 0, avatarName |-> Null,
           ready |-> FALSE, hasServerPosition |-> FALSE]
  /\ otherPlayers = NoPlayers
  /\ viewport = [width |-> 0, height |-> 0, cameraX |-> 0, cameraY |-> 0]
  /\ readyState = "NONE"
  /\ keysPressed = [d \in {"up", "down", "left", "right"} |-> FALSE]
  /\ movementLoopId = 0
  /\ timers = {}
  /\ lastMoveTime = 0
  /\ canSendMoveCommands = FALSE
  /\ joinHandlers = 0
  /\ now = StartTime
  /\ sent = <<>>
  /\ prevBurstAt = -1
  /\ lastBurstAt = -1
  /\ lastMoveAt = -1
  /\ closeHandled = FALSE
  /\ positionSupplied = FALSE
  /\ cameraCalled = FALSE
  /\ beforeRender = NoPlayers
  /\ motionFrames = 0
  /\ lastQuiet = ""

----------------------------------------------------------------------------
(* Bootstrap and viewport *)

\* resizeCanvas(): the viewport after the call, for a window of size win
resizeCanvas(w, m, v, win) ==
  updateCamera(w, m, [v EXCEPT !.width = win[1], !.height = win[2]])

\* worldImage.onload: size is the natural size of the image, win the window
\* size, wsOk whether the WebSocket constructor returned
WorldImageLoad(size, win, wsOk) ==
  /\ ~world.ready
  /\ world' = [width |-> size[1], height |-> size[2], ready |-> TRUE]
  /\ viewport' = resizeCanvas(world', me, viewport, win)
  /\ readyState' = IF wsOk THEN "CONNECTING" ELSE "NONE"
  /\ cameraCalled' = TRUE
  /\ beforeRender' = NoPlayers
  /\ UNCHANGED motionFrames
  /\ lastQuiet' = ""
  /\ NoteSent(<<>>)
  /\ UNCHANGED <<me, otherPlayers, keysPressed, movementLoopId, timers,
                 lastMoveTime, canSendMoveCommands, joinHandlers, now,
                 prevBurstAt, lastBurstAt, closeHandled, positionSupplied>>

\* window "resize": resizeCanvas() then updateCamera()
Resize(win) ==
  /\ viewport' = updateCamera(world, me, resizeCanvas(world, me, viewport, win))
  /\ cameraCalled' = TRUE
  /\ beforeRender' = NoPlayers
  /\ UNCHANGED motionFrames
  /\ lastQuiet' = ""
  /\ NoteSent(<<>>)
  /\ UNCHANGED <<world, me, otherPlayers, readyState, keysPressed,
                 movementLoopId, timers, lastMoveTime, canSendMoveCommands,
                 joinHandlers, now, prevBurstAt, lastBurstAt, closeHandled,
                 positionSupplied>>

----------------------------------------------------------------------------
(* Channel events *)

\* ws "open"
OnOpen ==
  /\ readyState = "CONNECTING"
  /\ readyState' = "OPEN"
  /\ sent' = <<[msg |-> [action |-> "join_game", username |-> me.username],
                open |-> (readyState' = "OPEN"), gate |-> canSendMoveCommands]>>
  /\ cameraCalled' = FALSE
  /\ beforeRender' = NoPlayers
  /\ UNCHANGED motionFrames
  /\ lastQuiet' = ""
  /\ UNCHANGED <<world, me, otherPlayers, viewport, keysPressed,
                 movementLoopId, timers, lastMoveTime, canSendMoveCommands,
                 joinHandlers, now, prevBurstAt, lastBurstAt, lastMoveAt,
                 closeHandled, positionSupplied>>

\* ws "close"
OnClose ==
  /\ readyState \in {"CONNECTING", "OPEN"}
  /\ readyState' = "CLOSED"
  /\ stopMovementLoop
  /\ closeHandled' = TRUE
  /\ cameraCalled' = FALSE
  /\ beforeRender' = NoPlayers
  /\ UNCHANGED motionFrames
  /\ lastQuiet' = ""
  /\ NoteSent(<<>>)
  /\ UNCHANGED <<world, me, otherPlayers, viewport, keysPressed,
                 lastMoveTime, canSendMoveCommands, joinHandlers, now,
                 prevBurstAt, lastBurstAt, positionSupplied>>

\* ws "error": the channel is already closed when the event fires and the
\* "close" event is dispatched by the same task, so both handlers run
OnError ==
  /\ readyState \in {"CONNECTING", "OPEN"}
  /\ readyState' = "CLOSED"
  /\ stopMovementLoop
  /\ closeHandled' = TRUE
  /\ cameraCalled' = FALSE
  /\ beforeRender' = NoPlayers
  /\ UNCHANGED motionFrames
  /\ lastQuiet' = ""
  /\ NoteSent(<<>>)
  /\ UNCHANGED <<world, me, otherPlayers, viewport, keysPressed,
                 lastMoveTime, canSendMoveCommands, joinHandlers, now,
                 prevBurstAt, lastBurstAt, positionSupplied>>

----------------------------------------------------------------------------
(* Inbound messages.  A payload player record p has the fields x, y,       *)
(* animationFrame (numbers, in tenths), facing, avatar and username; a     *)
(* players map is a function from a set of identifiers to such records.    *)

\* the remote-player entry built from a payload record
RemotePlayer(id, p) ==
  [id |-> id, x |-> Px(ToInt32(p.x)), y |-> Px(ToInt32(p.y)),
   facing |-> OrElse(p.facing, "south"),
   animationFrame |-> ToInt32(p.animationFrame),
   username |-> p.username, avatarName |-> p.avatar,
   targetX |-> Px(ToInt32(p.x)), targetY |-> Px(ToInt32(p.y)),
   lastUpdate |-> now]

\* join_game, success: state.me after the synchronous part of the handler
JoinedMe(pid, players) ==
  IF pid \in DOMAIN players
    THEN [me EXCEPT !.id = pid,
                    !.x = ToInt32(players[pid].x),
                    !.y = ToInt32(players[pid].y),
                    !.facing = OrElse(players[pid].facing, "south"),
                    !.animationFrame = ToInt32(players[pid].animationFrame),
                    !.avatarName = players[pid].avatar,
                    !.hasServerPosition = TRUE]
    ELSE [me EXCEPT !.id = pid]

\* join_game seeding the remote map with every entry, the local one included
JoinedOthersAll(pid, players) ==
  [id \in DOMAIN otherPlayers \cup DOMAIN players |->
     IF id \in DOMAIN players
       THEN RemotePlayer(id, players[id])
       ELSE otherPlayers[id]]

\* join_game, success: the remote map after the synchronous part
JoinedOthers(pid, players) ==
  [id \in DOMAIN otherPlayers \cup (DOMAIN players \ {pid}) |->
     IF id \in DOMAIN players \ {pid}
       THEN RemotePlayer(id, players[id])
       ELSE otherPlayers[id]]

\* the end of the handler with state.me.ready = true moved after the catch
JoinTailAlwaysReady(m, cached) ==
  /\ me' = [m EXCEPT !.ready = TRUE]
  /\ viewport' = updateCamera(world, me', viewport)
  /\ cameraCalled' = TRUE
  /\ beforeRender' = NoPlayers
  /\ UNCHANGED motionFrames
  /\ lastQuiet' = ""
  /\ canSendMoveCommands' = TRUE
  /\ startMovementLoop(TRUE)

\* the end of the join_game handler, after the avatar caching: cached tells
\* whether the try block completed; m is state.me when it resumes
JoinTail(m, cached) ==
  /\ me' = [m EXCEPT !.ready = IF cached THEN TRUE ELSE m.ready]
  /\ viewport' = updateCamera(world, me', viewport)
  /\ cameraCalled' = TRUE
  /\ beforeRender' = NoPlayers
  /\ UNCHANGED motionFrames
  /\ lastQuiet' = ""
  /\ canSendMoveCommands' = TRUE
  /\ startMovementLoop(TRUE)

\* join_game with success = false running on without the early return
JoinGameFailedProceeds ==
  /\ ChannelOpen
  /\ JoinTail(me, FALSE)
  /\ UNCHANGED <<world, otherPlayers, readyState, keysPressed, joinHandlers,
                 now, closeHandled, positionSupplied>>

\* message join_game with success = false
JoinGameFailed ==
  /\ ChannelOpen
  /\ cameraCalled' = FALSE
  /\ beforeRender' = NoPlayers
  /\ UNCHANGED motionFrames
  /\ lastQuiet' = "join rejected"
  /\ NoteSent(<<>>)
  /\ UNCHANGED <<progVars, prevBurstAt, lastBurstAt, closeHandled,
                 positionSupplied>>

\* message join_game, success.  suspends: the caching has an image to load,
\* so the handler yields to other tasks at its await; otherwise the awaits
\* resume in microtasks of the same task and the handler runs to its end
JoinGame(pid, players, suspends) ==
  /\ ChannelOpen
  /\ suspends => joinHandlers < MaxSuspended
  /\ otherPlayers' = JoinedOthers(pid, players)
  /\ positionSupplied' = (positionSupplied \/ pid \in DOMAIN players)
  /\ IF suspends
       THEN /\ me' = JoinedMe(pid, players)
            /\ joinHandlers' = joinHandlers + 1
            /\ cameraCalled' = FALSE
            /\ beforeRender' = NoPlayers
            /\ UNCHANGED motionFrames
            /\ lastQuiet' = ""
            /\ NoteSent(<<>>)
            /\ UNCHANGED <<viewport, canSendMoveCommands, movementLoopId,
                           timers, lastMoveTime, prevBurstAt, lastBurstAt>>
       ELSE /\ JoinTail(JoinedMe(pid, players), TRUE)
            /\ UNCHANGED joinHandlers
  /\ UNCHANGED <<world, readyState, keysPressed, now, closeHandled>>

\* a suspended join_game handler resumes: the caching resolved (cached) or
\* rejected
JoinResume(cached) ==
  /\ joinHandlers > 0
  /\ joinHandlers' = joinHandlers - 1
  /\ JoinTail(me, cached)
  /\ UNCHANGED <<world, otherPlayers, readyState, keysPressed, now,
                 closeHandled, positionSupplied>>

\* players_moved: state.me after the message
MovedMe(players) ==
  IF KeyOf(me.id) \in DOMAIN players
    THEN LET u == players[KeyOf(me.id)]
         IN [me EXCEPT !.x = ToInt32(u.x),
                       !.y = ToInt32(u.y),
                       !.facing = OrElse(u.facing, me.facing),
                       !.animationFrame = ToInt32(u.animationFrame)]
    ELSE me

\* players_moved creating an entry for an identifier it does not know
MovedOthersCreating(players) ==
  [id \in DOMAIN otherPlayers \cup (DOMAIN players \ {me.id}) |->
     IF id \in DOMAIN players /\ id # me.id
       THEN RemotePlayer(id, players[id])
       ELSE otherPlayers[id]]

\* players_moved: the remote map after the message
MovedOthers(players) ==
  [id \in DOMAIN otherPlayers |->
     IF id \in DOMAIN players /\ id # me.id
       THEN [otherPlayers[id] EXCEPT
               !.targetX = Px(ToInt32(players[id].x)),
               !.targetY = Px(ToInt32(players[id].y)),
               !.facing = OrElse(players[id].facing, otherPlayers[id].facing),
               !.animationFrame = ToInt32(players[id].animationFrame),
               !.lastUpdate = now]
       ELSE otherPlayers[id]]

\* message players_moved
PlayersMoved(players) ==
  /\ ChannelOpen
  /\ me' = MovedMe(players)
  /\ IF KeyOf(me.id) \in DOMAIN players
       THEN /\ viewport' = updateCamera(world, me', viewport)
            /\ cameraCalled' = TRUE
            /\ beforeRender' = NoPlayers
            /\ UNCHANGED motionFrames
            /\ lastQuiet' = ""
       ELSE /\ UNCHANGED viewport
            /\ cameraCalled' = FALSE
            /\ beforeRender' = NoPlayers
            /\ UNCHANGED motionFrames
            /\ lastQuiet' = ""
  /\ otherPlayers' = MovedOthers(players)
  /\ positionSupplied' = (positionSupplied \/ KeyOf(me.id) \in DOMAIN players)
  /\ NoteSent(<<>>)
  /\ UNCHANGED <<world, readyState, keysPressed, movementLoopId, timers,
                 lastMoveTime, canSendMoveCommands, joinHandlers, now,
                 prevBurstAt, lastBurstAt, closeHandled>>

\* player_joined leaving an entry it already has as it is
NewcomerOthersKeepingKnown(id, p, hasAvatar) ==
  IF hasAvatar /\ id \notin DOMAIN otherPlayers
    THEN [i \in DOMAIN otherPlayers \cup {id} |->
            IF i = id THEN RemotePlayer(id, p) ELSE otherPlayers[i]]
    ELSE otherPlayers

\* player_joined: the remote map after the message
NewcomerOthers(id, p, hasAvatar) ==
  IF hasAvatar
    THEN [i \in DOMAIN otherPlayers \cup {id} |->
            IF i = id THEN RemotePlayer(id, p) ELSE otherPlayers[i]]
    ELSE otherPlayers

\* message player_joined with the player record p of identifier id;
\* hasAvatar: the message carries an avatar descriptor
PlayerJoined(id, p, hasAvatar) ==
  /\ ChannelOpen
  /\ otherPlayers' = NewcomerOthers(id, p, hasAvatar)
  /\ cameraCalled' = FALSE
  /\ beforeRender' = NoPlayers
  /\ UNCHANGED motionFrames
  /\ lastQuiet' = ""
  /\ NoteSent(<<>>)
  /\ UNCHANGED <<world, me, viewport, readyState, keysPressed,
                 movementLoopId, timers, lastMoveTime, canSendMoveCommands,
                 joinHandlers, now, prevBurstAt, lastBurstAt, closeHandled,
                 positionSupplied>>

\* player_left emptying the remote map
LeftOthersClearing(id) ==
  IF id # "" /\ id \in DOMAIN otherPlayers THEN NoPlayers ELSE otherPlayers

\* player_left: the remote map after the message
LeftOthers(id) ==
  IF id # "" /\ id \in DOMAIN otherPlayers
    THEN [i \in DOMAIN otherPlayers \ {id} |-> otherPlayers[i]]
    ELSE otherPlayers

\* message player_left; id = "" stands for a missing playerId
PlayerLeft(id) ==
  /\ ChannelOpen
  /\ otherPlayers' = LeftOthers(id)
  /\ cameraCalled' = FALSE
  /\ beforeRender' = NoPlayers
  /\ UNCHANGED motionFrames
  /\ lastQuiet' = IF otherPlayers' # otherPlayers THEN "player removed"
                                                  ELSE "player_left ignored"
  /\ NoteSent(<<>>)
  /\ UNCHANGED <<world, me, viewport, readyState, keysPressed,
                 movementLoopId, timers, lastMoveTime, canSendMoveCommands,
                 joinHandlers, now, prevBurstAt, lastBurstAt, closeHandled,
                 positionSupplied>>

----------------------------------------------------------------------------
(* Presentation tick *)

\* d * interpolationSpeed with a speed of 2: each tick overshoots the target
\* by the whole gap
TimesSpeedTwice(d) == 2 * d

\* d * interpolationSpeed (0.1), to the nearest 1/Unit pixel
TimesSpeed(d) == IF d >= 0 THEN (d + 5) \div 10 ELSE -((5 - d) \div 10)

\* the test with && in place of ||
FarFromTargetBoth(dx, dy) == 2 * Abs(dx) > Unit /\ 2 * Abs(dy) > Unit

\* Math.abs(dx) > 0.5 || Math.abs(dy) > 0.5
FarFromTarget(dx, dy) == 2 * Abs(dx) > Unit \/ 2 * Abs(dy) > Unit

\* the loop body without the snap branch
InterpolateNoSnap(p) ==
  [p EXCEPT !.x = p.x + TimesSpeed(p.targetX - p.x),
            !.y = p.y + TimesSpeed(p.targetY - p.y)]

\* the body of the loop of updatePlayerInterpolation for one player
Interpolate(p) ==
  LET dx == p.targetX - p.x
      dy == p.targetY - p.y
  IN IF FarFromTarget(dx, dy)
       THEN [p EXCEPT !.x = p.x + TimesSpeed(dx), !.y = p.y + TimesSpeed(dy)]
       ELSE [p EXCEPT !.x = p.targetX, !.y = p.targetY]

\* updatePlayerInterpolation(): the remote map after the call
updatePlayerInterpolation ==
  [id \in DOMAIN otherPlayers |-> Interpolate(otherPlayers[id])]

\* one frame of the render loop: render()
RenderWithin(frames) ==
  /\ world.ready
  /\ otherPlayers' = updatePlayerInterpolation
  /\ beforeRender' = otherPlayers
  /\ IF otherPlayers' # otherPlayers
       THEN /\ motionFrames < frames
            /\ motionFrames' = motionFrames + 1
       ELSE UNCHANGED motionFrames
  /\ lastQuiet' = ""
  /\ cameraCalled' = FALSE
  /\ NoteSent(<<>>)
  /\ UNCHANGED <<world, me, viewport, readyState, keysPressed,
                 movementLoopId, timers, lastMoveTime, canSendMoveCommands,
                 joinHandlers, now, prevBurstAt, lastBurstAt, closeHandled,
                 positionSupplied>>

\* render(), in the specifications where remote players can be retargeted
\* at any time
Render == RenderWithin(MaxMotionFrames)

----------------------------------------------------------------------------
(* Input events and the loop's timer *)

\* keydown of a mapped key (an unmapped key changes nothing)
KeyDown(k) ==
  /\ world.ready
  /\ keysPressed' = [keysPressed EXCEPT ![keyMap[k]] = TRUE]
  /\ cameraCalled' = FALSE
  /\ beforeRender' = NoPlayers
  /\ UNCHANGED motionFrames
  /\ lastQuiet' = ""
  /\ NoteSent(<<>>)
  /\ UNCHANGED <<world, me, otherPlayers, viewport, readyState,
                 movementLoopId, timers, lastMoveTime, canSendMoveCommands,
                 joinHandlers, now, prevBurstAt, lastBurstAt, closeHandled,
                 positionSupplied>>

\* keyup of a mapped key
KeyUp(k) ==
  /\ world.ready
  /\ keysPressed' = [keysPressed EXCEPT ![keyMap[k]] = FALSE]
  /\ cameraCalled' = FALSE
  /\ beforeRender' = NoPlayers
  /\ UNCHANGED motionFrames
  /\ lastQuiet' = ""
  /\ NoteSent(<<>>)
  /\ UNCHANGED <<world, me, otherPlayers, viewport, readyState,
                 movementLoopId, timers, lastMoveTime, canSendMoveCommands,
                 joinHandlers, now, prevBurstAt, lastBurstAt, closeHandled,
                 positionSupplied>>

\* the click handler's test without the gate
ClickAllowedNoGate == ChannelOpen

\* the early return of the click handler, negated
ClickAllowed == canSendMoveCommands /\ ChannelOpen

\* a click handler that moves the local player to the clicked point itself
ClickPredicting(pt) ==
  /\ world.ready
  /\ IF ClickAllowed
       THEN /\ NoteSent(<<Out([action |-> "move",
                               x |-> pt[1] + viewport.cameraX,
                               y |-> pt[2] + viewport.cameraY],
                              canSendMoveCommands)>>)
            /\ me' = [me EXCEPT !.x = pt[1] + viewport.cameraX,
                                !.y = pt[2] + viewport.cameraY]
       ELSE /\ NoteSent(<<>>)
            /\ UNCHANGED me
  /\ cameraCalled' = FALSE
  /\ beforeRender' = NoPlayers
  /\ UNCHANGED motionFrames
  /\ lastQuiet' = ""
  /\ UNCHANGED <<world, otherPlayers, viewport, readyState, keysPressed,
                 movementLoopId, timers, lastMoveTime, canSendMoveCommands,
                 joinHandlers, now, prevBurstAt, lastBurstAt, closeHandled,
                 positionSupplied>>

\* canvas "click" at pt, relative to the canvas (whole pixels, so that
\* Math.round leaves the world coordinates as they are)
Click(pt) ==
  /\ world.ready
  /\ IF ClickAllowed
       THEN NoteSent(<<Out([action |-> "move",
                            x |-> pt[1] + viewport.cameraX,
                            y |-> pt[2] + viewport.cameraY],
                           canSendMoveCommands)>>)
       ELSE NoteSent(<<>>)
  /\ cameraCalled' = FALSE
  /\ beforeRender' = NoPlayers
  /\ UNCHANGED motionFrames
  /\ lastQuiet' = ""
  /\ UNCHANGED <<progVars, prevBurstAt, lastBurstAt, closeHandled,
                 positionSupplied>>

\* the chat handler sending whatever the channel state
ChatCanSendAlways == TRUE

\* the condition under which the chat handler sends
ChatCanSend == ChannelOpen

\* Enter in the chat input with a non-empty trimmed text
ChatEnter(text) ==
  /\ world.ready
  /\ IF ChatCanSend
       THEN NoteSent(<<Out([action |-> "chat", message |-> text],
                           canSendMoveCommands)>>)
       ELSE NoteSent(<<>>)
  /\ cameraCalled' = FALSE
  /\ beforeRender' = NoPlayers
  /\ UNCHANGED motionFrames
  /\ lastQuiet' = ""
  /\ UNCHANGED <<progVars, prevBurstAt, lastBurstAt, closeHandled,
                 positionSupplied>>

\* the timer t of the input loop fires
Tick(t) ==
  /\ t \in timers
  /\ now >= t.due
  /\ movementLoop(canSendMoveCommands, timers \ {t})
  /\ cameraCalled' = FALSE
  /\ beforeRender' = NoPlayers
  /\ UNCHANGED motionFrames
  /\ lastQuiet' = ""
  /\ UNCHANGED <<world, me, otherPlayers, viewport, readyState, keysPressed,
                 canSendMoveCommands, joinHandlers, now, closeHandled,
                 positionSupplied>>

\* time passes between two tasks (Date.now() does not go backwards); a timer
\* fires at its due time or at any later instant
Advance ==
  /\ now < StartTime + MaxAdvances * TimeStep
  /\ now' = now + TimeStep
  /\ UNCHANGED <<world, me, otherPlayers, viewport, readyState, keysPressed,
                 movementLoopId, timers, lastMoveTime, canSendMoveCommands,
                 joinHandlers, sent, prevBurstAt, lastBurstAt, lastMoveAt,
                 closeHandled, positionSupplied, cameraCalled, beforeRender,
                 motionFrames, lastQuiet>>

----------------------------------------------------------------------------
(* Inputs *)

\* payload player records (numbers in tenths)
Alice == [x |-> 10240, y |-> 10240, facing |-> "east", animationFrame |-> 10,
          avatar |-> "knight", username |-> "alice"]
Bob == [x |-> 1007, y |-> 2000, facing |-> "", animationFrame |-> 0,
        avatar |-> "mage", username |-> "bob"]
Far == [x |-> -500, y |-> 30000, facing |-> "north", animationFrame |-> 20,
        avatar |-> "knight", username |-> "far"]

\* the local player of the join scenario, alone at (100, 200)
Solo == [x |-> 1000, y |-> 2000, facing |-> "west", animationFrame |-> 0,
         avatar |-> "rogue", username |-> "solo"]

\* the players maps over the identifiers ids with records from recs
PlayerMaps(ids, recs) == UNION {[s -> recs] : s \in SUBSET ids}

----------------------------------------------------------------------------
(* The input loop and the channel: every task that reads or writes the     *)
(* channel state, the gate, the key state, the loop's timer or the clock.  *)
(* The tasks left out (resize, players_moved, player_joined, player_left)  *)
(* write only state.me, state.otherPlayers and state.viewport, which here  *)
(* decide nothing but the coordinates a click sends.                       *)

InputWorld == <<2048, 2048>>
InputWindow == <<800, 600>>
InputClick == <<400, 300>>
InputKeys == {"ArrowUp", "KeyD"}
InputPlayers == PlayerMaps({"42"}, {Alice})

NextInput ==
  \/ \E wsOk \in BOOLEAN : WorldImageLoad(InputWorld, InputWindow, wsOk)
  \/ OnOpen
  \/ OnClose
  \/ OnError
  \/ JoinGameFailed
  \/ \E players \in InputPlayers, suspends \in BOOLEAN :
       JoinGame("42", players, suspends)
  \/ \E cached \in BOOLEAN : JoinResume(cached)
  \/ \E k \in InputKeys : KeyDown(k)
  \/ \E k \in InputKeys : KeyUp(k)
  \/ Click(InputClick)
  \/ ChatEnter("hi")
  \/ \E t \in timers : Tick(t)
  \/ Advance

SpecInput == Init /\ [][NextInput]_vars

----------------------------------------------------------------------------
(* The world state store and the camera: every task that writes state.me,  *)
(* state.otherPlayers, state.world or state.viewport, with the channel     *)
(* events that decide which messages can still arrive.  The tasks left out *)
(* (keys, click, chat, the loop's timer, the clock) write none of these.   *)

StoreWorlds == {<<2048, 2048>>, <<600, 400>>, <<0, 2048>>}
StoreWindows == {<<800, 600>>, <<1025, 767>>}
StoreIds == {"42", "7"}
StoreJoins == PlayerMaps(StoreIds, {Alice, Far})
StoreMoves == PlayerMaps(StoreIds, {Bob})

NextStore ==
  \/ \E size \in StoreWorlds, win \in StoreWindows :
       WorldImageLoad(size, win, TRUE)
  \/ \E win \in StoreWindows : Resize(win)
  \/ OnOpen
  \/ OnClose
  \/ OnError
  \/ JoinGameFailed
  \/ \E pid \in StoreIds, players \in StoreJoins, suspends \in BOOLEAN :
       JoinGame(pid, players, suspends)
  \/ \E cached \in BOOLEAN : JoinResume(cached)
  \/ \E players \in StoreMoves : PlayersMoved(players)
  \/ \E id \in StoreIds, hasAvatar \in BOOLEAN :
       PlayerJoined(id, Alice, hasAvatar)
  \/ \E id \in StoreIds \cup {""} : PlayerLeft(id)

SpecStore == Init /\ [][NextStore]_vars

----------------------------------------------------------------------------
(* The server messages: every handler of the message listener, with the    *)
(* channel events and the world image.  Two identifiers, each of which can *)
(* be the local one, a remote one or unknown, and one suspended join_game  *)
(* handler at a time.                                                      *)

MsgIds == {"42", "7"}
MsgJoins == {[id \in {"42"} |-> Solo], [id \in MsgIds |-> Alice],
             [id \in {"7"} |-> Alice]}
MsgMoves == PlayerMaps(MsgIds, {Bob})

NextMessages ==
  \/ WorldImageLoad(InputWorld, InputWindow, TRUE)
  \/ OnOpen
  \/ OnClose
  \/ OnError
  \/ JoinGameFailed
  \/ \E pid \in MsgIds, players \in MsgJoins, suspends \in BOOLEAN :
       /\ suspends => joinHandlers = 0
       /\ JoinGame(pid, players, suspends)
  \/ \E cached \in BOOLEAN : JoinResume(cached)
  \/ \E players \in MsgMoves : PlayersMoved(players)
  \/ \E id \in MsgIds, hasAvatar \in BOOLEAN :
       PlayerJoined(id, Alice, hasAvatar)
  \/ \E id \in MsgIds \cup {""} : PlayerLeft(id)

SpecMessages == Init /\ [][NextMessages]_vars

----------------------------------------------------------------------------
(* The whole client: every task of the program, with one key, one window   *)
(* change and one remote player that stands still, so that every kind of   *)
(* task is interleaved with every other; the clock stops after AllAdvances *)
(* steps and one join_game handler at a time is suspended.                 *)

AllKeys == {"ArrowUp"}
AllJoins == {[id \in {"42"} |-> Alice]}
AllResize == <<1025, 767>>
AllMoves == {[id \in {"42"} |-> Bob]}
AllRemote == "7"

Next ==
  \/ WorldImageLoad(InputWorld, InputWindow, TRUE)
  \/ Resize(AllResize)
  \/ OnOpen
  \/ OnClose
  \/ OnError
  \/ JoinGameFailed
  \/ \E players \in AllJoins, suspends \in BOOLEAN :
       /\ suspends => joinHandlers = 0
       /\ JoinGame("42", players, suspends)
  \/ \E cached \in BOOLEAN : JoinResume(cached)
  \/ \E players \in AllMoves : PlayersMoved(players)
  \/ PlayerJoined(AllRemote, Alice, TRUE)
  \/ PlayerLeft(AllRemote)
  \/ Render
  \/ \E k \in AllKeys : KeyDown(k)
  \/ \E k \in AllKeys : KeyUp(k)
  \/ Click(InputClick)
  \/ ChatEnter("hi")
  \/ \E t \in timers : Tick(t)
  \/ (now < StartTime + AllAdvances * TimeStep /\ Advance)

Spec == Init /\ [][Next]_vars

----------------------------------------------------------------------------
(* Remote motion: every task that writes state.otherPlayers, with the      *)
(* presentation tick.  One remote player moves between three nearby        *)
(* points, so that gaps of exactly half a pixel and of less occur.         *)

Origin == [x |-> 0, y |-> 0, facing |-> "south", animationFrame |-> 0,
           avatar |-> "knight", username |-> "rem"]
Hop == [x |-> 50, y |-> 30, facing |-> "east", animationFrame |-> 10,
        avatar |-> "knight", username |-> "rem"]
Step == [x |-> 10, y |-> 0, facing |-> "", animationFrame |-> 20,
         avatar |-> "knight", username |-> "rem"]

MotionIds == {"7"}

NextMotion ==
  \/ WorldImageLoad(InputWorld, InputWindow, TRUE)
  \/ OnOpen
  \/ OnClose
  \/ OnError
  \/ \E players \in PlayerMaps(MotionIds, {Origin}) :
       JoinGame("42", players, FALSE)
  \/ \E players \in PlayerMaps(MotionIds, {Origin, Hop, Step}) :
       PlayersMoved(players)
  \/ \E id \in MotionIds, hasAvatar \in BOOLEAN :
       PlayerJoined(id, Origin, hasAvatar)
  \/ \E id \in MotionIds : PlayerLeft(id)
  \/ Render

SpecMotion == Init /\ [][NextMotion]_vars

----------------------------------------------------------------------------
(* Remote motion coming to rest: the tasks of SpecMotion, where the server *)
(* retargets a remote player only before its displayed position has begun  *)
(* to move, and requestAnimationFrame keeps calling render().              *)

NextSettle ==
  \/ WorldImageLoad(InputWorld, InputWindow, TRUE)
  \/ OnOpen
  \/ OnClose
  \/ OnError
  \/ \E players \in PlayerMaps(MotionIds, {Origin}) :
       JoinGame("42", players, FALSE)
  \/ \E players \in PlayerMaps(MotionIds, {Origin, Hop, Step}) :
       /\ motionFrames = 0
       /\ PlayersMoved(players)
  \/ \E id \in MotionIds, hasAvatar \in BOOLEAN :
       PlayerJoined(id, Origin, hasAvatar)
  \/ \E id \in MotionIds : PlayerLeft(id)
  \/ RenderWithin(SettleFrames)

SpecSettle ==
  Init /\ [][NextSettle]_vars /\ WF_vars(RenderWithin(SettleFrames))

----------------------------------------------------------------------------
(* Properties *)

CommandActions == {"move", "stop"}

\* C1: no move or stop command is sent unless the join_game success handler
\* has set the move gate: every such send sees the gate set at the call, and
\* the gate is set in the state the task leaves.
C1_CommandsNeedGate ==
  \A i \in 1..Len(sent) :
    sent[i].msg.action \in CommandActions => sent[i].gate /\ canSendMoveCommands

\* C1 witness: a click has sent a move-to-point command with the gate set
C1_Witness ==
  \E i \in 1..Len(sent) :
    /\ sent[i].msg.action = "move"
    /\ "x" \in DOMAIN sent[i].msg
    /\ sent[i].gate

IsDirectionMove(o) == o.msg.action = "move" /\ "direction" \in DOMAIN o.msg

DirectionMovesOf(d) ==
  {i \in 1..Len(sent) : IsDirectionMove(sent[i]) /\ sent[i].msg.direction = d}

PressedDirections == {d \in DOMAIN keysPressed : keysPressed[d]}

\* C2: two runs of the input loop that each emit direction moves are at least
\* 100 ms apart, and an emitting run sends exactly one move command per
\* currently pressed direction (and nothing else).
C2_LoopThrottle ==
  /\ prevBurstAt # -1 => lastBurstAt - prevBurstAt >= 100
  /\ (\E i \in 1..Len(sent) : IsDirectionMove(sent[i])) =>
       /\ \A d \in DOMAIN keysPressed :
            Cardinality(DirectionMovesOf(d)) = IF keysPressed[d] THEN 1 ELSE 0
       /\ Len(sent) = Cardinality(PressedDirections)

\* C2 witness: a second emitting run has just sent two direction moves
C2_Witness ==
  /\ prevBurstAt # -1
  /\ lastBurstAt = now
  /\ Len(sent) = 2
  /\ IsDirectionMove(sent[1])
  /\ IsDirectionMove(sent[2])

\* C3: move messages of either shape (direction moves of the loop, and
\* move-to-point of a click) are emitted in at most one burst per 100 ms:
\* two distinct instants at which a move is sent are at least 100 ms apart.
C3_AllMovesThrottled ==
  [][(lastMoveAt # -1 /\ lastMoveAt' # lastMoveAt)
       => lastMoveAt' - lastMoveAt >= 100]_vars

\* C4: whenever the move gate is set the local player has an authoritative
\* position.
C4_GateImpliesPosition == canSendMoveCommands => me.hasServerPosition

\* C5: hasServerPosition is true once a server message (join_game success
\* with the local id, or players_moved with the local id) has supplied a
\* position of the local player.
C5_SuppliedImpliesFlag == positionSupplied => me.hasServerPosition

\* C6: once a close or error event has been handled the input loop is
\* stopped: no timer of the loop is pending, so no further tick runs.
C6_LoopStoppedAfterClose ==
  closeHandled => timers = {} /\ movementLoopId = 0

\* C7: no outbound message of any kind is sent while the channel is not
\* open.
C7_SendsOnlyWhenOpen ==
  \A i \in 1..Len(sent) : sent[i].open

\* C7 witness: the chat handler has sent a message on the open channel
C7_Witness ==
  /\ Len(sent) = 1
  /\ sent[1].msg.action = "chat"
  /\ sent[1].open

\* the upper end of the camera range on one axis
CameraRangeMax(wdim, vdim) == IF wdim - vdim > 0 THEN wdim - vdim ELSE 0

\* C8: the camera is always inside [0, max(0, W - w)] x [0, max(0, H - h)]
\* for the current world and viewport sizes.
C8_CameraInRange ==
  /\ viewport.cameraX >= 0
  /\ viewport.cameraX <= CameraRangeMax(world.width, viewport.width)
  /\ viewport.cameraY >= 0
  /\ viewport.cameraY <= CameraRangeMax(world.height, viewport.height)

\* C8 witness: the camera was computed for a position outside the world on
\* both axes and is clamped to the lower end on one, the upper on the other
C8_Witness ==
  /\ cameraCalled
  /\ me.hasServerPosition
  /\ me.x < 0
  /\ me.y > world.height
  /\ viewport.cameraX = 0
  /\ viewport.cameraY = world.height - viewport.height
  /\ viewport.cameraY > 0

\* the early-return conditions of updateCamera in the state a task leaves
CameraFrozen(w, m) == ~m.hasServerPosition \/ ~w.ready \/ w.width = 0 \/ w.height = 0

\* C9: while the local player has no server position (or the world is not
\* ready, or a world dimension is 0) no task changes the camera.
C9_CameraUnchangedWithoutPosition ==
  [][CameraFrozen(world', me')
       => /\ viewport.cameraX' = viewport.cameraX
          /\ viewport.cameraY' = viewport.cameraY]_vars

\* C9 witness: a task after a join invoked updateCamera for a ready world of
\* non-zero size while the local player had no server position
C9_Witness ==
  /\ cameraCalled
  /\ world.ready
  /\ world.width # 0
  /\ world.height # 0
  /\ viewport.width # 0
  /\ me.id # Null
  /\ ~me.hasServerPosition
  /\ viewport.cameraX = 0
  /\ viewport.cameraY = 0

\* the centered and clamped camera coordinate on one axis
CenteredClamped(pos, vdim, wdim) ==
  LET desired == pos - (vdim \div 2)
      hi == CameraRangeMax(wdim, vdim)
  IN IF desired < 0 THEN 0 ELSE IF desired > hi THEN hi ELSE desired

\* C10: when updateCamera runs with the world ready, non-zero world
\* dimensions and a server position, the camera becomes on each axis
\* clamp(position - floor(viewport / 2), 0, max(0, world - viewport)); world
\* 2048x2048, viewport 800x600, position (1024,1024) gives (624,724).
C10_CameraCentered ==
  (cameraCalled /\ ~CameraFrozen(world, me)) =>
    /\ viewport.cameraX = CenteredClamped(me.x, viewport.width, world.width)
    /\ viewport.cameraY = CenteredClamped(me.y, viewport.height, world.height)
    /\ (/\ world.width = 2048 /\ world.height = 2048
        /\ viewport.width = 800 /\ viewport.height = 600
        /\ me.x = 1024 /\ me.y = 1024)
         => viewport.cameraX = 624 /\ viewport.cameraY = 724

\* C10 witness: the scenario of the specification
C10_Witness ==
  /\ cameraCalled
  /\ me.hasServerPosition
  /\ world.width = 2048 /\ world.height = 2048
  /\ viewport.width = 800 /\ viewport.height = 600
  /\ me.x = 1024 /\ me.y = 1024
  /\ viewport.cameraX = 624 /\ viewport.cameraY = 724

\* the gap from displayed to target of a remote player record, per axis
GapX(p) == p.targetX - p.x
GapY(p) == p.targetY - p.y

\* both gaps are at most half a pixel
WithinHalfPixel(p) == 2 * Abs(GapX(p)) <= Unit /\ 2 * Abs(GapY(p)) <= Unit

\* C11: a presentation tick that finds a remote player within 0.5 pixel of
\* its target on both axes leaves it exactly on the target.
C11_SnapWhenClose ==
  \A id \in DOMAIN beforeRender :
    WithinHalfPixel(beforeRender[id]) =>
      /\ otherPlayers[id].x = beforeRender[id].targetX
      /\ otherPlayers[id].y = beforeRender[id].targetY

\* C11 witness: a tick snapped a player that was off its target, by exactly
\* half a pixel on one axis
C11_Witness ==
  \E id \in DOMAIN beforeRender :
    /\ WithinHalfPixel(beforeRender[id])
    /\ 2 * Abs(GapX(beforeRender[id])) = Unit
    /\ GapY(beforeRender[id]) # 0
    /\ otherPlayers[id].x = otherPlayers[id].targetX
    /\ otherPlayers[id].y = otherPlayers[id].targetY

\* the squared distance from displayed to target
SquaredGap(p) == GapX(p) * GapX(p) + GapY(p) * GapY(p)

\* on one axis: the move is 0.1 of the gap before (to the nearest 1/Unit
\* pixel), and the gap after is on the same side and no larger
SmoothedAxis(gapBefore, gapAfter) ==
  /\ Abs(10 * (gapBefore - gapAfter) - gapBefore) <= 5
  /\ IF gapBefore >= 0
       THEN 0 <= gapAfter /\ gapAfter <= gapBefore
       ELSE gapBefore <= gapAfter /\ gapAfter <= 0

\* C12: a presentation tick that finds a remote player more than 0.5 pixel
\* from its target on some axis strictly decreases its distance to the
\* target, moves it on each axis by 0.1 of the gap and never past the target.
C12_SmoothWhenFar ==
  \A id \in DOMAIN beforeRender :
    ~WithinHalfPixel(beforeRender[id]) =>
      /\ SquaredGap(otherPlayers[id]) < SquaredGap(beforeRender[id])
      /\ SmoothedAxis(GapX(beforeRender[id]), GapX(otherPlayers[id]))
      /\ SmoothedAxis(GapY(beforeRender[id]), GapY(otherPlayers[id]))

\* C12 witness: a tick moved a player that was within half a pixel on the
\* x axis only
C12_Witness ==
  \E id \in DOMAIN beforeRender :
    /\ GapX(beforeRender[id]) # 0
    /\ 2 * Abs(GapX(beforeRender[id])) <= Unit
    /\ 2 * Abs(GapY(beforeRender[id])) > Unit
    /\ otherPlayers[id].x # beforeRender[id].x
    /\ otherPlayers[id].y # beforeRender[id].y

\* a payload number v (in tenths) truncated to whole pixels gives the
\* coordinate c
WholePixelsOf(v, c) ==
  /\ c % Unit = 0
  /\ Abs(10 * c - Unit * v) < 10 * Unit
  /\ Abs(10 * c) <= Abs(Unit * v)

\* C13: a players_moved message never changes the key set of the remote map
\* nor a displayed position; for a known identifier other than the local id
\* it overwrites only target, facing, animation frame and lastUpdate, and an
\* identifier that is not in the map gets no entry.
C13_PlayersMovedFrame ==
  [][\A players \in MsgMoves :
       PlayersMoved(players) =>
         /\ DOMAIN otherPlayers' = DOMAIN otherPlayers
         /\ \A id \in DOMAIN otherPlayers :
              /\ otherPlayers'[id].x = otherPlayers[id].x
              /\ otherPlayers'[id].y = otherPlayers[id].y
              /\ otherPlayers'[id].id = otherPlayers[id].id
              /\ otherPlayers'[id].username = otherPlayers[id].username
              /\ otherPlayers'[id].avatarName = otherPlayers[id].avatarName
              /\ IF id \in DOMAIN players /\ id # me.id
                   THEN /\ WholePixelsOf(players[id].x, otherPlayers'[id].targetX)
                        /\ WholePixelsOf(players[id].y, otherPlayers'[id].targetY)
                        /\ otherPlayers'[id].lastUpdate = now
                   ELSE otherPlayers'[id] = otherPlayers[id]]_vars

\* C13 witness: a players_moved message has retargeted the remote player
\* "7" (and named the local player "42", who has no remote entry)
C13_Witness ==
  /\ me.id = "42"
  /\ me.x = 100
  /\ DOMAIN otherPlayers = {"7"}
  /\ otherPlayers["7"].targetX = Px(100)
  /\ otherPlayers["7"].x = Px(1024)

\* C14: a player_left message removes exactly the entry of its identifier;
\* when the identifier is absent from the map or missing from the message
\* the handler changes nothing.
C14_PlayerLeftRemovesOne ==
  [][\A id \in MsgIds \cup {""} :
       PlayerLeft(id) =>
         /\ IF id \in DOMAIN otherPlayers
              THEN /\ DOMAIN otherPlayers' = DOMAIN otherPlayers \ {id}
                   /\ \A i \in DOMAIN otherPlayers' :
                        otherPlayers'[i] = otherPlayers[i]
              ELSE otherPlayers' = otherPlayers
         /\ UNCHANGED <<world, me, viewport, readyState, keysPressed,
                        movementLoopId, timers, lastMoveTime,
                        canSendMoveCommands, joinHandlers, now>>
         /\ sent' = <<>>]_vars

\* C14 witness: player_left has just removed one of two remote entries
C14_Witness ==
  /\ lastQuiet = "player removed"
  /\ DOMAIN otherPlayers = {"42"}
  /\ me.id = "7"

\* the remote entry e displays, and is headed for, the position of the
\* payload record p
SeededFrom(e, p) ==
  /\ 10 * e.x = Unit * p.x
  /\ 10 * e.y = Unit * p.y
  /\ e.targetX = e.x
  /\ e.targetY = e.y
  /\ e.lastUpdate = now

\* C15: a join_game success message makes playerId the local id, takes the
\* local position, facing, animation frame and avatar from players[playerId]
\* and sets hasServerPosition; every other entry of players becomes a remote
\* entry with displayed = target = the server value; playerId gets no entry.
C15_JoinSeedsPlayers ==
  [][\A pid \in MsgIds, players \in MsgJoins, suspends \in BOOLEAN :
       JoinGame(pid, players, suspends) =>
         /\ me'.id = pid
         /\ pid \in DOMAIN players =>
              /\ 10 * me'.x = players[pid].x
              /\ 10 * me'.y = players[pid].y
              /\ me'.facing = players[pid].facing
              /\ 10 * me'.animationFrame = players[pid].animationFrame
              /\ me'.avatarName = players[pid].avatar
              /\ me'.hasServerPosition
         /\ DOMAIN otherPlayers' = DOMAIN otherPlayers \cup (DOMAIN players \ {pid})
         /\ \A id \in DOMAIN players \ {pid} :
              /\ SeededFrom(otherPlayers'[id], players[id])
              /\ otherPlayers'[id].id = id
         /\ \A id \in DOMAIN otherPlayers \ (DOMAIN players \ {pid}) :
              otherPlayers'[id] = otherPlayers[id]]_vars

\* C15 witness: after join_game with players = {"42": (100, 200)} and
\* playerId "42" the local player is at (100, 200) and the remote map is empty
C15_Witness ==
  /\ me.id = "42"
  /\ me.x = 100
  /\ me.y = 200
  /\ me.avatarName = "rogue"
  /\ me.hasServerPosition
  /\ otherPlayers = NoPlayers

\* C16: a join_game message with success = false changes no program state:
\* the gate and the input loop stay as they were and nothing is sent.
C16_RejectedJoinMutesNothing ==
  [][JoinGameFailed => (UNCHANGED progVars /\ sent' = <<>>)]_vars

\* C16 witness: a rejected join has just been handled; there is no local id,
\* the gate is closed and the input loop is not running
C16_Witness ==
  /\ lastQuiet = "join rejected"
  /\ ChannelOpen
  /\ me.id = Null
  /\ ~canSendMoveCommands
  /\ movementLoopId = 0
  /\ timers = {}

\* the input loop is running: its timer is pending (primed: after the step)
LoopStarted ==
  /\ movementLoopId' # 0
  /\ \E t \in timers' : t.id = movementLoopId'

\* C17: the ready flag is set (to true) only by a join_game handler whose
\* avatar caching has resolved, never by the part of the handler before its
\* await; a handler whose caching failed leaves ready as it was and still
\* recomputes the camera, sets the move gate and starts the input loop.
C17_ReadyAfterCaching ==
  [][/\ me'.ready # me.ready =>
          /\ me'.ready
          /\ \/ JoinResume(TRUE)
             \/ \E pid \in MsgIds, players \in MsgJoins :
                  JoinGame(pid, players, FALSE)
     /\ \A pid \in MsgIds, players \in MsgJoins :
          JoinGame(pid, players, TRUE) => me'.ready = me.ready
     /\ JoinResume(FALSE) =>
          /\ me'.ready = me.ready
          /\ viewport' = updateCamera(world, me, viewport)
          /\ canSendMoveCommands'
          /\ LoopStarted]_vars

\* C17 witness: a handler whose caching failed has just finished: the local
\* player has its position, the gate is set and the loop runs, ready is false
C17_Witness ==
  /\ ~me.ready
  /\ me.hasServerPosition
  /\ joinHandlers = 0
  /\ cameraCalled
  /\ canSendMoveCommands
  /\ movementLoopId # 0
  /\ world.ready
  /\ viewport.cameraX = CenteredClamped(me.x, viewport.width, world.width)

\* C18: the local player's position changes only in the handler of a
\* join_game success or of a players_moved message: no key event, input
\* tick, click, presentation tick, resize, chat entry, player_joined or
\* player_left changes it.
C18_PositionFromServerOnly ==
  [][(me'.x # me.x \/ me'.y # me.y) =>
       \/ \E players \in AllJoins, suspends \in BOOLEAN :
            JoinGame("42", players, suspends)
       \/ \E players \in AllMoves : PlayersMoved(players)]_vars

\* C18 witness: the loop has sent direction moves, the key is still held, the
\* last task sent a move, and the local player stands where players_moved
\* put it
C18_Witness ==
  /\ me.x = 100
  /\ me.y = 200
  /\ keysPressed["up"]
  /\ Len(sent) = 1
  /\ IsMove(sent[1])
  /\ lastBurstAt >= 0

\* C19 as stated: every player_joined message, with an avatar descriptor or
\* without, leaves a remote entry under the player's id with displayed =
\* target = the given position.
C19_EveryJoinedCreatesEntry ==
  [][\A id \in MsgIds, hasAvatar \in BOOLEAN :
       PlayerJoined(id, Alice, hasAvatar) =>
         /\ id \in DOMAIN otherPlayers'
         /\ SeededFrom(otherPlayers'[id], Alice)]_vars

\* C19, amended: a player_joined message that carries an avatar descriptor
\* leaves a remote entry under the player's id with displayed = target = the
\* given position, and touches no other entry; one without an avatar
\* descriptor leaves the remote map as it was.
C19_JoinedWithAvatarCreatesEntry ==
  [][\A id \in MsgIds :
       /\ PlayerJoined(id, Alice, TRUE) =>
            /\ DOMAIN otherPlayers' = DOMAIN otherPlayers \cup {id}
            /\ SeededFrom(otherPlayers'[id], Alice)
            /\ otherPlayers'[id].id = id
            /\ \A i \in DOMAIN otherPlayers \ {id} :
                 otherPlayers'[i] = otherPlayers[i]
       /\ PlayerJoined(id, Alice, FALSE) => otherPlayers' = otherPlayers]_vars

\* C19 witness: there is a remote player "7" where player_joined put it,
\* before any join_game has named the local player
C19_Witness ==
  /\ me.id = Null
  /\ DOMAIN otherPlayers = {"7"}
  /\ otherPlayers["7"].x = Px(1024)
  /\ otherPlayers["7"].targetX = Px(1024)
  /\ otherPlayers["7"].avatarName = "knight"

IsStop(o) == o.msg.action = "stop"

\* C20: a run of the input loop sends a stop command exactly when the
\* channel is open, the gate is set and no direction is pressed, and then it
\* sends that one command and nothing else, however recent the last move
\* burst; a run with a direction pressed and the throttle interval not yet
\* elapsed sends nothing.
C20_StopEveryIdleTick ==
  [][\A t \in timers :
       Tick(t) =>
         /\ IF ChannelOpen /\ canSendMoveCommands /\ PressedDirections = {}
              THEN Len(sent') = 1 /\ IsStop(sent'[1])
              ELSE \A i \in 1..Len(sent') : ~IsStop(sent'[i])
         /\ (PressedDirections # {} /\ now - lastMoveTime < 100) =>
              sent' = <<>>]_vars

\* C20 witness: the loop has just sent a stop less than 100 ms after its
\* last burst of direction moves
C20_Witness ==
  /\ Len(sent) = 1
  /\ IsStop(sent[1])
  /\ lastBurstAt >= 0
  /\ now - lastBurstAt < 100
  /\ now - lastMoveTime < 100

\* every remote player is displayed exactly at its target
AllSettled ==
  \A id \in DOMAIN otherPlayers :
    /\ otherPlayers[id].x = otherPlayers[id].targetX
    /\ otherPlayers[id].y = otherPlayers[id].targetY

\* no remote player appears, leaves or gets another target in this step
NoRetarget ==
  /\ DOMAIN otherPlayers' = DOMAIN otherPlayers
  /\ \A id \in DOMAIN otherPlayers :
       /\ otherPlayers'[id].targetX = otherPlayers[id].targetX
       /\ otherPlayers'[id].targetY = otherPlayers[id].targetY

\* C21: if from some point on no remote player is removed or gets another
\* target, then after finitely many presentation ticks every displayed
\* position equals its target exactly, and stays there on every later tick.
C21_SmoothingSettles == <>[][NoRetarget]_vars => <>[]AllSettled

\* C21 witness: the last presentation tick has put the remote player "7",
\* five pixels away when its motion began, exactly on its target
C21_Witness ==
  /\ "7" \in DOMAIN beforeRender
  /\ "7" \in DOMAIN otherPlayers
  /\ otherPlayers["7"].targetX = Px(5)
  /\ beforeRender["7"].x # otherPlayers["7"].targetX
  /\ otherPlayers["7"].x = otherPlayers["7"].targetX
  /\ otherPlayers["7"].y = otherPlayers["7"].targetY
  /\ motionFrames > MaxMotionFrames

\* C22: at every presentation tick at which the world is ready and the local
\* player has a server position, the camera is, on each axis, the local
\* position centered in the viewport and clamped to the world: no render
\* sees a position the camera has not followed yet.
C22_RenderSeesFollowingCamera ==
  [][(Render /\ world.ready /\ me.hasServerPosition) =>
       /\ viewport.cameraX = CenteredClamped(me.x, viewport.width, world.width)
       /\ viewport.cameraY = CenteredClamped(me.y, viewport.height, world.height)]_vars

\* C23: in every reachable state the remote map has no entry under the
\* local player's identifier, whatever messages the server has sent.
C23_NoRemoteEntryForLocalId == me.id \notin DOMAIN otherPlayers

====
